---- MODULE Spec2Model ----
(***************************************************************************)
(* A model of pkg/yqlib/data_navigator.go: the navigator's Get, Update and *)
(* Delete over a yaml.Node tree.                                           *)
(*                                                                         *)
(* The tree lives in a heap.  nodes[id] is the yaml.Node at address id     *)
(* (0 is the nil pointer).  A Content field is a Go slice header           *)
(* [arr, len]: arr names a backing array (0 for the nil slice), and        *)
(* arrays[arr] is that array, its length being the slice's capacity.  Two  *)
(* headers naming the same array alias each other, as in Go.               *)
(*                                                                         *)
(* Strings (path segments, scalar values) are sequences of one-character   *)
(* strings, so that TrimSuffix, HasPrefix and ParseInt are computed.       *)
(***************************************************************************)
EXTENDS Integers, Sequences, FiniteSets, TLC

\* nodes, arrays: the heap.  root: the node the caller holds.  last: the
\* latest call (its arguments, what it returned, and the heap it was made
\* on); prev: the call before it.  nops: the number of calls made.
VARIABLES nodes, arrays, root, prev, last, nops

vars == <<nodes, arrays, root, prev, last, nops>>

(* ------------------------------------------------------------------ *)
(* Bounds                                                             *)
(* ------------------------------------------------------------------ *)

\* Number of navigator calls made on one document.
MaxOps == 2

(* ------------------------------------------------------------------ *)
(* yaml.v3 kinds and the outcomes of a call                           *)
(* ------------------------------------------------------------------ *)

NoKind == "0"
DocumentNode == "DocumentNode"
SequenceNode == "SequenceNode"
MappingNode == "MappingNode"
ScalarNode == "ScalarNode"

NilNode == 0
NilSlice == [arr |-> 0, len |-> 0]

NoError == "nil"
\* The *strconv.NumError of strconv.ParseInt.
InvalidIndexSegment == "strconv.ParseInt: invalid syntax"
\* A Go run-time panic (index or slice bounds out of range): the call never returns.
Panic == "panic"

(* ------------------------------------------------------------------ *)
(* Strings                                                            *)
(* ------------------------------------------------------------------ *)

Digits == {"0", "1", "2", "3", "4", "5", "6", "7", "8", "9"}

DigitVal(c) ==
    CASE c = "0" -> 0 [] c = "1" -> 1 [] c = "2" -> 2 [] c = "3" -> 3 [] c = "4" -> 4
      [] c = "5" -> 5 [] c = "6" -> 6 [] c = "7" -> 7 [] c = "8" -> 8 [] c = "9" -> 9

RECURSIVE Atoi(_)
Atoi(s) ==
    IF s = <<>> THEN 0
    ELSE 10 * Atoi(SubSeq(s, 1, Len(s) - 1)) + DigitVal(s[Len(s)])

\* strconv.ParseInt(s, 10, 64): an optional sign, then one or more digits.
\* (The 64-bit range error needs 19 digits, more than any segment here.)
ParseInt(s) ==
    LET signed == Len(s) > 0 /\ s[1] \in {"+", "-"}
        body == IF signed THEN Tail(s) ELSE s
        ok == Len(body) > 0 /\ \A i \in 1..Len(body) : body[i] \in Digits
    IN  [ok |-> ok,
         val |-> IF ~ok THEN 0
                 ELSE IF signed /\ s[1] = "-" THEN 0 - Atoi(body) ELSE Atoi(body)]

\* strings.TrimSuffix(s, "*")
TrimSuffix(s) ==
    IF Len(s) > 0 /\ s[Len(s)] = "*" THEN SubSeq(s, 1, Len(s) - 1) ELSE s

\* strings.HasPrefix(s, prefix)
HasPrefix(s, prefix) ==
    Len(s) >= Len(prefix) /\ SubSeq(s, 1, Len(prefix)) = prefix

matchesKey(key, actual) ==
    LET prefixMatch == TrimSuffix(key)
    IN  IF prefixMatch # key THEN HasPrefix(actual, prefixMatch) ELSE actual = key

(* ------------------------------------------------------------------ *)
(* The heap: nodes, slices and their backing arrays                   *)
(* ------------------------------------------------------------------ *)

\* A traversal state t is [nodes, arrays, matched, err]: the heap, the
\* nodes handed to the visitor so far, and the error being returned.

\* yaml.Node{Kind: kind, Value: value}: the other fields are zero.  Tag
\* stands for the fields Update copies besides Kind, Value and Content
\* (Tag, Style and the three comments), which the code treats alike.
NewNodeValue(kind, value) ==
    [Kind |-> kind, Value |-> value, Tag |-> "", Content |-> NilSlice]

\* &yaml.Node{...}: a fresh address.
Alloc(t, rec) ==
    [t |-> [t EXCEPT !.nodes = Append(@, rec)], id |-> Len(t.nodes) + 1]

Cap(t, s) == IF s.arr = 0 THEN 0 ELSE Len(t.arrays[s.arr])

\* s[i], 0-based
At(t, s, i) == t.arrays[s.arr][i + 1]

\* s[i] = x
SetAt(t, s, i, x) == [t EXCEPT !.arrays[s.arr][i + 1] = x]

\* Capacity of the array append allocates when the old one is full
\* (runtime.growslice for small pointer slices: 0 -> 1, then doubling).
GrowCap(cap) == IF cap = 0 THEN 1 ELSE cap + cap

\* append(s, x): in place when capacity allows, else into a new array.
AppendSlice(t, s, x) ==
    IF s.len < Cap(t, s)
    THEN [t |-> SetAt(t, s, s.len, x), s |-> [arr |-> s.arr, len |-> s.len + 1]]
    ELSE LET fresh == [j \in 1..GrowCap(Cap(t, s)) |->
                         IF j <= s.len THEN At(t, s, j - 1)
                         ELSE IF j = s.len + 1 THEN x ELSE NilNode]
         IN  [t |-> [t EXCEPT !.arrays = Append(@, fresh)],
              s |-> [arr |-> Len(t.arrays) + 1, len |-> s.len + 1]]

\* SpliceOut with the shortened slice header lost: the container keeps its length.
SpliceOutKeepLen(t, original, k, d) ==
    LET a == t.arrays[original.arr]
        moved == [j \in 1..Len(a) |->
                    IF j > k /\ j <= original.len - d THEN a[j + d] ELSE a[j]]
    IN  [t |-> [t EXCEPT !.arrays[original.arr] = moved], s |-> original]

\* append(original[:k], original[k+d:]...): original[:k] keeps original's
\* capacity, so the tail is moved down inside the same backing array and
\* the slots past the new length keep their old pointers.
SpliceOut(t, original, k, d) ==
    LET a == t.arrays[original.arr]
        moved == [j \in 1..Len(a) |->
                    IF j > k /\ j <= original.len - d THEN a[j + d] ELSE a[j]]
    IN  [t |-> [t EXCEPT !.arrays[original.arr] = moved],
         s |-> [arr |-> original.arr, len |-> original.len - d]]

Fail(t, e) == [t EXCEPT !.err = e]

(* ------------------------------------------------------------------ *)
(* Kind inference and coercion                                        *)
(* ------------------------------------------------------------------ *)

guessKind(tail, guess) ==
    IF Len(tail) = 0 /\ guess = NoKind THEN ScalarNode
    ELSE IF Len(tail) = 0 THEN guess
    ELSE IF tail[1] = <<"+">> \/ ParseInt(tail[1]).ok THEN SequenceNode
    ELSE IF tail[1] = <<"*">> /\ (guess = SequenceNode \/ guess = MappingNode) THEN guess
    ELSE MappingNode

getOrReplace(t, original, expectedKind) ==
    IF t.nodes[original].Kind # expectedKind
    THEN Alloc(t, NewNodeValue(expectedKind, <<>>))
    ELSE [t |-> t, id |-> original]

(* ------------------------------------------------------------------ *)
(* The visitors of the three operations                               *)
(* ------------------------------------------------------------------ *)

RECURSIVE Visit(_, _, _, _)
RECURSIVE recurse(_, _, _, _, _)
RECURSIVE splatMapLoop(_, _, _, _, _)
RECURSIVE splatArrayLoop(_, _, _, _, _)
RECURSIVE visitMatchingEntries(_, _, _, _, _, _)

\* The callback of Get: matchingNodes = append(matchingNodes, matchedNode).
GetVisitor(t, matchedNode) ==
    [t EXCEPT !.matched = Append(@, matchedNode)]

\* The callback of Update with the assignment of Content left out.
UpdateVisitorKeepContent(t, nodeToUpdate, changesToApply) ==
    [t EXCEPT !.nodes[nodeToUpdate] =
                  [changesToApply EXCEPT !.Content = t.nodes[nodeToUpdate].Content],
              !.matched = Append(@, nodeToUpdate)]

\* The callback of Update: every field of nodeToUpdate is overwritten
\* with changesToApply's; Content is the same slice header, not a copy.
UpdateVisitor(t, nodeToUpdate, changesToApply) ==
    [t EXCEPT !.nodes[nodeToUpdate] = changesToApply,
              !.matched = Append(@, nodeToUpdate)]

\* The callback Delete hands to visitMatchingEntries for a mapping:
\* the pair at indexInMap is cut out of `original`, the slice header
\* taken before the scan, whatever earlier calls did to its array.
DeleteMapEntry(t, nodeToUpdate, original, indexInMap) ==
    LET r == SpliceOut(t, original, indexInMap, 2)
    IN  [r.t EXCEPT !.nodes[nodeToUpdate].Content = r.s]

\* The sequence branch of Delete's callback.
DeleteSequenceEntry(t, nodeToUpdate, lastBit) ==
    LET original == t.nodes[nodeToUpdate].Content
        parsed == ParseInt(lastBit)
        index == parsed.val
    IN  IF ~parsed.ok THEN Fail(t, InvalidIndexSegment)
        ELSE IF index >= original.len THEN t
        ELSE IF index < 0 THEN Fail(t, Panic)   \* original[:index]: slice bounds out of range
        ELSE LET r == SpliceOut(t, original, index, 1)
             IN  [r.t EXCEPT !.nodes[nodeToUpdate].Content = r.s]

\* The callback of Delete, run on each container the path's front reaches.
DeleteVisitor(t, nodeToUpdate, lastBit) ==
    LET t1 == [t EXCEPT !.matched = Append(@, nodeToUpdate)]
        original == t1.nodes[nodeToUpdate].Content
    IN  IF t1.nodes[nodeToUpdate].Kind = SequenceNode
        THEN DeleteSequenceEntry(t1, nodeToUpdate, lastBit)
        ELSE IF t1.nodes[nodeToUpdate].Kind = MappingNode
        THEN visitMatchingEntries(t1, original, lastBit,
                 [fn |-> "Delete", value |-> nodeToUpdate, original |-> original],
                 0, FALSE).t
        ELSE t1

\* visitor(node) for the VisitorFn of each operation.
visitor(t, node, vis) ==
    CASE vis.op = "Get" -> GetVisitor(t, node)
      [] vis.op = "Update" -> UpdateVisitor(t, node, vis.changesToApply)
      [] vis.op = "Delete" -> DeleteVisitor(t, node, vis.lastBit)

(* ------------------------------------------------------------------ *)
(* The traversal                                                      *)
(* ------------------------------------------------------------------ *)

Visit(t, value, path, vis) ==
    IF t.nodes[value].Kind = DocumentNode /\ t.nodes[value].Content.len = 0
    THEN Fail(t, Panic)                         \* value.Content[0]: index out of range
    ELSE LET realValue == IF t.nodes[value].Kind = DocumentNode
                          THEN At(t, t.nodes[value].Content, 0)
                          ELSE value
         IN  IF Len(path) > 0
             THEN recurse(t, realValue, Head(path), Tail(path), vis)
             ELSE visitor(t, realValue, vis)

\* One iteration body of recurseMap's callback: the value of the matched
\* key is coerced, stored back into value.Content, and visited.
recurseMapEntry(t, value, indexInMap, tail, vis) ==
    LET content == t.nodes[value].Content
    IN  IF indexInMap + 1 >= content.len THEN Fail(t, Panic)
        ELSE LET old == At(t, content, indexInMap + 1)
                 r == getOrReplace(t, old, guessKind(tail, t.nodes[old].Kind))
                 t1 == SetAt(r.t, content, indexInMap + 1, r.id)
             IN  Visit(t1, At(t1, t1.nodes[value].Content, indexInMap + 1), tail, vis)

\* recurseMapAdd that adds the entry and returns without visiting the new value.
recurseMapAddUnvisited(t, value, head, tail, vis) ==
    LET k == Alloc(t, NewNodeValue(ScalarNode, head))
        a1 == AppendSlice(k.t, k.t.nodes[value].Content, k.id)
        t1 == [a1.t EXCEPT !.nodes[value].Content = a1.s]
        v == Alloc(t1, NewNodeValue(guessKind(tail, NoKind), <<>>))
        a2 == AppendSlice(v.t, v.t.nodes[value].Content, v.id)
    IN  [a2.t EXCEPT !.nodes[value].Content = a2.s]

\* recurseMap after no key matched: the key and a value of the guessed
\* kind are appended, and the new value is visited.
recurseMapAdd(t, value, head, tail, vis) ==
    LET k == Alloc(t, NewNodeValue(ScalarNode, head))
        a1 == AppendSlice(k.t, k.t.nodes[value].Content, k.id)
        t1 == [a1.t EXCEPT !.nodes[value].Content = a1.s]
        v == Alloc(t1, NewNodeValue(guessKind(tail, NoKind), <<>>))
        a2 == AppendSlice(v.t, v.t.nodes[value].Content, v.id)
        t2 == [a2.t EXCEPT !.nodes[value].Content = a2.s]
    IN  Visit(t2, v.id, tail, vis)

\* The mapVisitorFn handed to visitMatchingEntries.
mapVisitorFn(t, visit, indexInMap) ==
    IF visit.fn = "recurseMap"
    THEN recurseMapEntry(t, visit.value, indexInMap, visit.tail, visit.vis)
    ELSE DeleteMapEntry(t, visit.value, visit.original, indexInMap)

\* for index, content := range contents: the header `contents` is fixed
\* when the loop starts, each element is read when its turn comes.
visitMatchingEntries(t, contents, key, visit, index, visited) ==
    IF index >= contents.len THEN [t |-> t, visited |-> visited]
    ELSE IF index % 2 = 0 /\ matchesKey(key, t.nodes[At(t, contents, index)].Value)
    THEN LET t1 == mapVisitorFn(t, visit, index)
         IN  IF t1.err # NoError THEN [t |-> t1, visited |-> visited]
             ELSE visitMatchingEntries(t1, contents, key, visit, index + 1, TRUE)
    ELSE visitMatchingEntries(t, contents, key, visit, index + 1, visited)

recurseMap(t, value, head, tail, vis) ==
    LET r == visitMatchingEntries(t, t.nodes[value].Content, head,
                 [fn |-> "recurseMap", value |-> value, tail |-> tail, vis |-> vis],
                 0, FALSE)
    IN  IF r.t.err # NoError THEN r.t
        ELSE IF r.visited THEN r.t
        ELSE recurseMapAdd(r.t, value, head, tail, vis)

\* The replacement getOrReplace returns is kept in the loop variable only.
splatMapLoop(t, contents, index, tail, vis) ==
    IF index >= contents.len THEN t
    ELSE IF index % 2 = 0 THEN splatMapLoop(t, contents, index + 1, tail, vis)
    ELSE LET content == At(t, contents, index)
             r == getOrReplace(t, content, guessKind(tail, t.nodes[content].Kind))
             t1 == Visit(r.t, r.id, tail, vis)
         IN  IF t1.err # NoError THEN t1
             ELSE splatMapLoop(t1, contents, index + 1, tail, vis)

splatMap(t, value, tail, vis) ==
    splatMapLoop(t, t.nodes[value].Content, 0, tail, vis)

splatArrayLoop(t, contents, index, tail, vis) ==
    IF index >= contents.len THEN t
    ELSE LET childValue == At(t, contents, index)
             r == getOrReplace(t, childValue, guessKind(tail, t.nodes[childValue].Kind))
             t1 == Visit(r.t, r.id, tail, vis)
         IN  IF t1.err # NoError THEN t1
             ELSE splatArrayLoop(t1, contents, index + 1, tail, vis)

splatArray(t, value, tail, vis) ==
    splatArrayLoop(t, t.nodes[value].Content, 0, tail, vis)

appendArray(t, value, tail, vis) ==
    LET n == Alloc(t, NewNodeValue(guessKind(tail, NoKind), <<>>))
        a == AppendSlice(n.t, n.t.nodes[value].Content, n.id)
        t1 == [a.t EXCEPT !.nodes[value].Content = a.s]
    IN  Visit(t1, n.id, tail, vis)

recurseArray(t, value, head, tail, vis) ==
    LET parsed == ParseInt(head)
        index == parsed.val
        content == t.nodes[value].Content
    IN  IF ~parsed.ok THEN Fail(t, InvalidIndexSegment)
        ELSE IF index >= content.len THEN t
        ELSE IF index < 0 THEN Fail(t, Panic)   \* value.Content[index]: index out of range
        ELSE LET old == At(t, content, index)
                 r == getOrReplace(t, old, guessKind(tail, t.nodes[old].Kind))
                 t1 == SetAt(r.t, content, index, r.id)
             IN  Visit(t1, At(t1, t1.nodes[value].Content, index), tail, vis)

recurse(t, value, head, tail, vis) ==
    CASE t.nodes[value].Kind = MappingNode ->
             IF head = <<"*">> THEN splatMap(t, value, tail, vis)
             ELSE recurseMap(t, value, head, tail, vis)
      [] t.nodes[value].Kind = SequenceNode ->
             IF head = <<"*">> THEN splatArray(t, value, tail, vis)
             ELSE IF head = <<"+">> THEN appendArray(t, value, tail, vis)
             ELSE recurseArray(t, value, head, tail, vis)
      [] OTHER -> t

(* ------------------------------------------------------------------ *)
(* The three operations                                               *)
(* ------------------------------------------------------------------ *)

\* What a call leaves behind and returns: the heap, the nodes its visitor
\* was handed, the error Visit returned, and the node and error returned
\* to the caller.
Outcome(t, res, err) ==
    [nodes |-> t.nodes, arrays |-> t.arrays, matched |-> t.matched,
     visitErr |-> t.err, res |-> res, err |-> err]

Start(n, a) == [nodes |-> n, arrays |-> a, matched |-> <<>>, err |-> NoError]

RECURSIVE SliceOf(_, _, _, _)
\* The slice matchingNodes, grown by append from make([]*yaml.Node, 0).
SliceOf(t, s, ids, i) ==
    IF i > Len(ids) THEN [t |-> t, s |-> s]
    ELSE LET a == AppendSlice(t, s, ids[i])
         IN  SliceOf(a.t, a.s, ids, i + 1)

\* The end of Get returning the first match whenever there is one.
GetResultFirst(t) ==
    IF Len(t.matched) = 0 THEN [t |-> t, res |-> NilNode]
    ELSE [t |-> t, res |-> t.matched[1]]

\* The end of Get: no match, the one match itself, or a new sequence
\* node whose Content is matchingNodes.
GetResult(t) ==
    IF Len(t.matched) = 0 THEN [t |-> t, res |-> NilNode]
    ELSE IF Len(t.matched) = 1 THEN [t |-> t, res |-> t.matched[1]]
    ELSE LET m == SliceOf(t, NilSlice, t.matched, 1)
             n == Alloc(m.t, [NewNodeValue(SequenceNode, <<>>) EXCEPT !.Content = m.s])
         IN  [t |-> n.t, res |-> n.id]

\* Get drops the error Visit returns: its own error result is always nil.
Get(n, a, value, path) ==
    LET t == Visit(Start(n, a), value, path, [op |-> "Get"])
    IN  IF t.err = Panic THEN Outcome(t, NilNode, Panic)
        ELSE LET g == GetResult(t)
             IN  Outcome([g.t EXCEPT !.err = t.err], g.res, NoError)

Update(n, a, rootNode, path, changesToApply) ==
    LET t == Visit(Start(n, a), rootNode, path,
                   [op |-> "Update", changesToApply |-> changesToApply])
    IN  Outcome(t, NilNode, t.err)

Delete(n, a, rootNode, path) ==
    IF Len(path) = 0
    THEN Outcome(Fail(Start(n, a), Panic), NilNode, Panic)   \* path[len(path)-1]
    ELSE LET lastBit == path[Len(path)]
             newTail == SubSeq(path, 1, Len(path) - 1)
             t == Visit(Start(n, a), rootNode, newTail,
                        [op |-> "Delete", lastBit |-> lastBit])
         IN  Outcome(t, NilNode, t.err)

(* ------------------------------------------------------------------ *)
(* Documents, paths and replacement nodes the calls are made with     *)
(* ------------------------------------------------------------------ *)

D(k, v, c) == [k |-> k, v |-> v, c |-> c]
Scalar(v) == D(ScalarNode, v, <<>>)
MapOf(c) == D(MappingNode, <<>>, c)
SeqOf(c) == D(SequenceNode, <<>>, c)
DocOf(c) == D(DocumentNode, <<>>, <<c>>)

\* The tag the parser resolves for a node of kind k.
TagOf(k) ==
    CASE k = ScalarNode -> "!!str" [] k = MappingNode -> "!!map"
      [] k = SequenceNode -> "!!seq" [] OTHER -> ""

RECURSIVE BuildNode(_, _)
RECURSIVE BuildContent(_, _, _, _)
\* The tree of a parsed document: each Content is grown by append.
BuildContent(t, s, ds, i) ==
    IF i > Len(ds) THEN [t |-> t, s |-> s]
    ELSE LET c == BuildNode(t, ds[i])
             a == AppendSlice(c.t, s, c.id)
         IN  BuildContent(a.t, a.s, ds, i + 1)

BuildNode(t, d) ==
    LET c == BuildContent(t, NilSlice, d.c, 1)
    IN  Alloc(c.t, [Kind |-> d.k, Value |-> d.v, Tag |-> TagOf(d.k), Content |-> c.s])

A == <<"a">>
B == <<"b">>
AB == <<"a", "b">>
APrefix == <<"a", "*">>
Star == <<"*">>
Plus == <<"+">>
I0 == <<"0">>
I1 == <<"1">>
Neg1 == <<"-", "1">>

\* Well-formed documents: mappings alternate key and value, and every
\* node but the root sits in exactly one Content position.
\*   [10, 20]    {a: 1, a: 2, ab: 3}
\*   a document wrapping {a: [1, 2]}    [{a: 1}, [1]]
Docs ==
    << SeqOf(<<Scalar(<<"1", "0">>), Scalar(<<"2", "0">>)>>),
       MapOf(<<Scalar(A), Scalar(<<"1">>), Scalar(A), Scalar(<<"2">>),
               Scalar(AB), Scalar(<<"3">>)>>),
       DocOf(MapOf(<<Scalar(A), SeqOf(<<Scalar(<<"1">>), Scalar(<<"2">>)>>)>>)),
       SeqOf(<<MapOf(<<Scalar(A), Scalar(<<"1">>)>>), SeqOf(<<Scalar(<<"1">>)>>)>>) >>

\* The empty path; a literal key, a prefix wildcard, the splat, the append
\* marker, two indices and a negative one at the root; and two-segment
\* paths that descend through a key, an index and the splat.
Paths ==
    { <<>>, <<A>>, <<APrefix>>, <<Star>>, <<Plus>>, <<I0>>, <<I1>>, <<Neg1>>,
      <<A, B>>, <<A, I0>>, <<I0, A>>, <<Star, B>> }

\* The nodes Update is given: a scalar, a mapping with its own children,
\* and a document node wrapping a scalar.
Replacements ==
    << Scalar(<<"5">>), MapOf(<<Scalar(B), Scalar(<<"9">>)>>), DocOf(Scalar(<<"7">>)) >>

(* ------------------------------------------------------------------ *)
(* The state machine: calls made on one document                      *)
(* ------------------------------------------------------------------ *)

NoChange == [Kind |-> NoKind, Value |-> <<>>, Tag |-> "", Content |-> NilSlice]

Call(op, path, changes, o) ==
    [op |-> op, path |-> path, changesToApply |-> changes,
     res |-> o.res, err |-> o.err, visitErr |-> o.visitErr, matched |-> o.matched,
     pre |-> [nodes |-> nodes, arrays |-> arrays]]

NoCall(h) ==
    [op |-> "none", path |-> <<>>, changesToApply |-> NoChange,
     res |-> NilNode, err |-> NoError, visitErr |-> NoError, matched |-> <<>>,
     pre |-> h]

Init ==
    \E i \in 1..Len(Docs) :
        LET b == BuildNode(Start(<<>>, <<>>), Docs[i])
            h == [nodes |-> b.t.nodes, arrays |-> b.t.arrays]
        IN  /\ nodes = h.nodes
            /\ arrays = h.arrays
            /\ root = b.id
            /\ prev = NoCall(h)
            /\ last = NoCall(h)
            /\ nops = 0

\* A call can be made while the program has not panicked.
CanCall == nops < MaxOps /\ last.err # Panic

Done(op, path, changes, o) ==
    /\ nodes' = o.nodes
    /\ arrays' = o.arrays
    /\ last' = Call(op, path, changes, o)
    /\ prev' = last
    /\ nops' = nops + 1
    /\ UNCHANGED root

GetCall(path) ==
    /\ CanCall
    /\ Done("Get", path, NoChange, Get(nodes, arrays, root, path))

\* The caller builds the replacement (its children are new nodes, not
\* nodes of the tree) and passes it by value.
UpdateCall(path, d) ==
    /\ CanCall
    /\ LET c == BuildContent(Start(nodes, arrays), NilSlice, d.c, 1)
           changesToApply == [Kind |-> d.k, Value |-> d.v, Tag |-> TagOf(d.k),
                              Content |-> c.s]
       IN  Done("Update", path, changesToApply,
                Update(c.t.nodes, c.t.arrays, root, path, changesToApply))

DeleteCall(path) ==
    /\ CanCall
    /\ Done("Delete", path, NoChange, Delete(nodes, arrays, root, path))

Next ==
    \/ \E path \in Paths : GetCall(path)
    \/ \E path \in Paths : \E i \in 1..Len(Replacements) : UpdateCall(path, Replacements[i])
    \/ \E path \in Paths : DeleteCall(path)

Spec == Init /\ [][Next]_vars

(* ------------------------------------------------------------------ *)
(* Reading a heap                                                     *)
(* ------------------------------------------------------------------ *)

\* node.Content as the sequence of the nodes it holds, in heap h = [nodes, arrays].
ContentOf(h, id) ==
    LET s == h.nodes[id].Content
    IN  [i \in 1..s.len |-> h.arrays[s.arr][i]]

Here == [nodes |-> nodes, arrays |-> arrays]

RECURSIVE ValueAt(_, _, _)
\* The value of a node: its kind, its string and the values of its children.
ValueAt(h, id, fuel) ==
    IF id = NilNode THEN [k |-> "nil", v |-> <<>>, c |-> <<>>]
    ELSE IF fuel = 0 THEN [k |-> "cycle", v |-> <<>>, c |-> <<>>]
    ELSE [k |-> h.nodes[id].Kind, v |-> h.nodes[id].Value,
          c |-> [i \in 1..Len(ContentOf(h, id)) |-> ValueAt(h, ContentOf(h, id)[i], fuel - 1)]]

\* No path through Content is longer than the heap has nodes.
ValueOf(h, id) == ValueAt(h, id, Len(h.nodes))

\* The top-level value the operations work on: the document's child.
RealRoot(h) ==
    IF h.nodes[root].Kind = DocumentNode THEN ContentOf(h, root)[1] ELSE root

\* Every node reachable from the nodes of S through Content.
RECURSIVE ReachFrom(_, _, _)
ReachFrom(h, S, fuel) ==
    LET N == S \cup UNION {{ContentOf(h, p)[i] : i \in 1..h.nodes[p].Content.len} : p \in S}
    IN  IF N = S \/ fuel = 0 THEN S ELSE ReachFrom(h, N, fuel - 1)

\* The nodes of the tree the caller holds.
Tree(h) == ReachFrom(h, {root}, Len(h.nodes))

\* The tree of heap h is well formed: a document node only at the root,
\* with one child; every other node a scalar, sequence or mapping; the
\* Content of a mapping of even length.
WellFormed(h) ==
    \A n \in Tree(h) :
        /\ n # root => h.nodes[n].Kind \in {ScalarNode, SequenceNode, MappingNode}
        /\ h.nodes[n].Kind = DocumentNode => h.nodes[n].Content.len = 1
        /\ h.nodes[n].Kind = MappingNode => h.nodes[n].Content.len % 2 = 0

\* A segment that is a literal key or an index: no splat, no prefix
\* wildcard, no append marker.
Literal(seg) == seg # Star /\ seg # Plus /\ TrimSuffix(seg) = seg

\* The call `last` was made right after `prev`, with the same path.
Then(op1, op2) ==
    prev.op = op1 /\ last.op = op2 /\ last.path = prev.path

(* ------------------------------------------------------------------ *)
(* C1                                                                 *)
(* ------------------------------------------------------------------ *)

\* The node Get returned has the kind, value and content of the
\* replacement the Update before it was given.
GotReplacement ==
    /\ last.err = NoError
    /\ last.res # NilNode
    /\ nodes[last.res].Kind = prev.changesToApply.Kind
    /\ nodes[last.res].Value = prev.changesToApply.Value
    /\ nodes[last.res].Content = prev.changesToApply.Content
    /\ ValueOf(Here, last.res).c =
           [i \in 1..prev.changesToApply.Content.len |->
               ValueOf(last.pre, last.pre.arrays[prev.changesToApply.Content.arr][i])]

\* C1 as stated: for a well-formed tree and a path made only of literal
\* keys, numeric indices or the append marker (no splat, no prefix
\* wildcard, the Update having met no duplicate key, so that it visited
\* at most one node), Update(root, path, v) followed by Get(root, path)
\* returns a node equal to v in kind, value and content.
C1_AsStated ==
    ( /\ Then("Update", "Get")
      /\ WellFormed(prev.pre)
      /\ \A i \in 1..Len(last.path) : Literal(last.path[i]) \/ last.path[i] = Plus
      /\ Len(prev.matched) <= 1 )
    => GotReplacement

\* C1 amended: for a well-formed tree, a replacement v that is a scalar,
\* sequence or mapping node, and a path made only of literal keys and
\* numeric indices (no append marker) on which the Update reached exactly
\* one node, Update(root, path, v) followed by Get(root, path) returns a
\* node equal to v in kind, value and content.
C1_UpdateThenGet ==
    ( /\ Then("Update", "Get")
      /\ WellFormed(prev.pre)
      /\ prev.changesToApply.Kind \in {ScalarNode, SequenceNode, MappingNode}
      /\ \A i \in 1..Len(last.path) : Literal(last.path[i])
      /\ Len(prev.matched) = 1 )
    => GotReplacement

\* An Update of a nested key with the mapping replacement, then the Get.
C1_Witness ==
    /\ Then("Update", "Get")
    /\ WellFormed(prev.pre)
    /\ last.path = <<A, B>>
    /\ Len(prev.matched) = 1
    /\ prev.changesToApply.Kind = MappingNode
    /\ prev.changesToApply.Content.len = 2
    /\ last.res # NilNode

(* ------------------------------------------------------------------ *)
(* C2                                                                 *)
(* ------------------------------------------------------------------ *)

\* The final segment of the path of the call before the latest.
PrevLastBit == prev.path[Len(prev.path)]

\* Container c existed when the Delete was called, as a sequence of which
\* the final segment is a valid in-range index.
SeqTarget(c) ==
    /\ c <= Len(prev.pre.nodes)
    /\ prev.pre.nodes[c].Kind = SequenceNode
    /\ ParseInt(PrevLastBit).ok
    /\ ParseInt(PrevLastBit).val >= 0
    /\ ParseInt(PrevLastBit).val < prev.pre.nodes[c].Content.len

\* Container c existed when the Delete was called, as a mapping of which
\* the final segment is a literal key.
MapTarget(c) ==
    /\ c <= Len(prev.pre.nodes)
    /\ prev.pre.nodes[c].Kind = MappingNode
    /\ Literal(PrevLastBit)
    /\ \E i \in 1..prev.pre.nodes[c].Content.len :
          i % 2 = 1 /\ prev.pre.nodes[ContentOf(prev.pre, c)[i]].Value = PrevLastBit

\* C2 as stated: on a well-formed tree, Delete(root, path) followed by
\* Get(root, path) returns no result and no error when the final segment
\* was a literal key of the mapping, or a valid in-range index of the
\* sequence, the path's front part reached.
C2_AsStated ==
    ( /\ Then("Delete", "Get")
      /\ WellFormed(prev.pre)
      /\ Len(prev.path) > 0
      /\ prev.matched # <<>>
      /\ \A i \in 1..Len(prev.matched) :
            SeqTarget(prev.matched[i]) \/ MapTarget(prev.matched[i]) )
    => (last.res = NilNode /\ last.err = NoError)

\* C2 amended: on a well-formed tree, when the path's front part reached
\* one container, Delete followed by Get returns no result exactly when the final segment was
\* the last index of a sequence; for an earlier index Get returns the
\* element that followed the deleted one; and for a literal key of a
\* mapping (a key that is no integer) Get returns a node, not no result:
\* when no entry with that key is left, a new empty scalar the traversal
\* has added under the key.
C2_DeleteThenGet ==
    ( /\ Then("Delete", "Get")
      /\ WellFormed(prev.pre)
      /\ Len(prev.path) > 0
      /\ Len(prev.matched) = 1 )
    => LET c == prev.matched[1]
           old == ContentOf(prev.pre, c)
           i == ParseInt(PrevLastBit).val
       IN  /\ SeqTarget(c) =>
                /\ last.err = NoError
                /\ last.res = IF i = Len(old) - 1 THEN NilNode ELSE old[i + 2]
           /\ (MapTarget(c) /\ ~ParseInt(PrevLastBit).ok) =>
                /\ last.err = NoError
                /\ last.res # NilNode
                /\ (\A j \in 1..last.pre.nodes[c].Content.len :
                       j % 2 = 1 => last.pre.nodes[ContentOf(last.pre, c)[j]].Value # PrevLastBit)
                   => /\ last.res > Len(last.pre.nodes)
                      /\ nodes[last.res] = NewNodeValue(ScalarNode, <<>>)

\* The last element of a sequence is deleted and then asked for.
C2_Witness ==
    /\ Then("Delete", "Get")
    /\ WellFormed(prev.pre)
    /\ Len(prev.path) > 0
    /\ Len(prev.matched) = 1
    /\ SeqTarget(prev.matched[1])
    /\ ParseInt(PrevLastBit).val = prev.pre.nodes[prev.matched[1]].Content.len - 1
    /\ last.res = NilNode

(* ------------------------------------------------------------------ *)
(* C3                                                                 *)
(* ------------------------------------------------------------------ *)

RECURSIVE ValuesOfKey(_, _, _, _)
\* The values of the entries of mapping content ids whose key is key, in order.
ValuesOfKey(h, ids, key, i) ==
    IF i + 1 > Len(ids) THEN <<>>
    ELSE (IF h.nodes[ids[i]].Value = key THEN <<ids[i + 1]>> ELSE <<>>)
         \o ValuesOfKey(h, ids, key, i + 2)

C5_GetTwice ==
    Then("Get", "Get")
    => /\ last.err = prev.err
       /\ ValueOf(Here, last.res) = ValueOf(last.pre, prev.res)

\* The first Get created the entry it returned; the second finds it.
C5_Witness ==
    /\ Then("Get", "Get")
    /\ last.path = <<A, B>>
    /\ prev.res > Len(prev.pre.nodes)
    /\ last.res = prev.res

(* ------------------------------------------------------------------ *)
(* C4                                                                 *)
(* ------------------------------------------------------------------ *)

\* The final segment of the latest call's path.
LastBit == last.path[Len(last.path)]

RECURSIVE Unmatched(_, _, _, _)
\* The key/value pairs of mapping content ids whose key does not match key, in order.
Unmatched(h, ids, key, i) ==
    IF i + 1 > Len(ids) THEN <<>>
    ELSE (IF matchesKey(key, h.nodes[ids[i]].Value) THEN <<>> ELSE <<ids[i], ids[i + 1]>>)
         \o Unmatched(h, ids, key, i + 2)

\* C4: when Delete reaches a mapping with a target segment that is a key
\* or a prefix wildcard, every pair whose key matches the target segment
\* is removed and every other pair is kept, in order: the
\* mapping then holds exactly the pairs that did not match.
C4_AsStated ==
    (last.op = "Delete" /\ Len(last.path) > 0 /\ LastBit # Star /\ last.err = NoError)
    => \A i \in 1..Len(last.matched) :
          LET c == last.matched[i]
          IN  (c <= Len(last.pre.nodes) /\ last.pre.nodes[c].Kind = MappingNode)
              => ContentOf(Here, c) = Unmatched(last.pre, ContentOf(last.pre, c), LastBit, 1)

(* ------------------------------------------------------------------ *)
(* C6                                                                 *)
(* ------------------------------------------------------------------ *)

\* C6: whenever the traversal of Get, Update or Delete meets a sequence
\* with a segment that is no integer (nor `*` nor `+`), so that Visit
\* returns the ParseInt error, the operation returns that error to its
\* caller.
C6_AsStated ==
    (last.op \in {"Get", "Update", "Delete"} /\ last.visitErr = InvalidIndexSegment)
    => last.err = InvalidIndexSegment

(* ------------------------------------------------------------------ *)
(* C7                                                                 *)
(* ------------------------------------------------------------------ *)

EmptyDeletePath == "EmptyDeletePath"

\* C7: Delete called with an empty path returns the error EmptyDeletePath
\* as an ordinary error value and leaves the tree unchanged.
C7_AsStated ==
    (last.op = "Delete" /\ last.path = <<>>)
    => (last.err = EmptyDeletePath /\ Here = last.pre)

(* ------------------------------------------------------------------ *)
(* C8                                                                 *)
(* ------------------------------------------------------------------ *)

\* ids without its element at 0-based position i.
Without(ids, i) == SubSeq(ids, 1, i) \o SubSeq(ids, i + 2, Len(ids))

\* C8: when Delete reaches a sequence with a target segment that parses
\* as the integer i, it returns no error; a valid position i loses
\* exactly its element, the others keeping their order, and any other i
\* (beyond the end, or negative) leaves Content unchanged.
C8_AsStated ==
    (last.op = "Delete" /\ Len(last.path) > 0 /\ ParseInt(LastBit).ok)
    => \A j \in 1..Len(last.matched) :
          LET c == last.matched[j]
              old == ContentOf(last.pre, c)
              i == ParseInt(LastBit).val
          IN  (c <= Len(last.pre.nodes) /\ last.pre.nodes[c].Kind = SequenceNode)
              => /\ last.err = NoError
                 /\ ContentOf(Here, c) =
                       IF 0 <= i /\ i < Len(old) THEN Without(old, i) ELSE old

(* ------------------------------------------------------------------ *)
(* C9                                                                 *)
(* ------------------------------------------------------------------ *)

\* Position i (from 1) of the Content of a node of kind k holds a value.
ValuePosition(k, i) == k = SequenceNode \/ (k = MappingNode /\ i % 2 = 0)

\* C9: after Get or Update with the path (`*`, k) on a mapping or
\* sequence, every value of the container is of the kind the rest of the
\* path requires, guessKind((k), the kind it had), and every node handed
\* to the callback is reachable from the root.
C9_AsStated ==
    LET r == RealRoot(last.pre)
        old == ContentOf(last.pre, r)
        new == ContentOf(Here, r)
    IN  ( /\ last.op \in {"Get", "Update"}
          /\ Len(last.path) = 2
          /\ last.path[1] = Star
          /\ last.visitErr = NoError
          /\ last.pre.nodes[r].Kind \in {MappingNode, SequenceNode} )
        => /\ Len(new) = Len(old)
           /\ \A i \in 1..Len(old) :
                 ValuePosition(last.pre.nodes[r].Kind, i)
                 => nodes[new[i]].Kind =
                        guessKind(Tail(last.path), last.pre.nodes[old[i]].Kind)
           /\ \A i \in 1..Len(last.matched) : last.matched[i] \in Tree(Here)

(* ------------------------------------------------------------------ *)
(* C10                                                                *)
(* ------------------------------------------------------------------ *)

\* The Content positions of the tree: <<parent, position>>.
Slots(h) ==
    UNION {{<<p, i>> : i \in 1..h.nodes[p].Content.len} : p \in Tree(h)}

\* C10: after any calls that returned, no node of the tree is referenced
\* from two Content positions, and none references the root.
C10_AsStated ==
    last.err # Panic
    => /\ \A s1, s2 \in Slots(Here) :
             s1 # s2 => ContentOf(Here, s1[1])[s1[2]] # ContentOf(Here, s2[1])[s2[2]]
       /\ \A s \in Slots(Here) : ContentOf(Here, s[1])[s[2]] # root

====
